---- MODULE Spec2Model ----
(***************************************************************************)
(* A model of pyphishnet's PhishNetAPI (src/pyphishnet/api.py): the        *)
(* constructor, the three endpoint methods and the two aggregating loops,  *)
(* with the Phish.net service as the environment that picks each response. *)
(* Strings are sequences of one-character strings, so that str.replace and *)
(* the URL the HTTP client builds are computed character by character.     *)
(***************************************************************************)
EXTENDS Integers, Sequences, FiniteSets, TLC

\* ------------------------------------------------------------- bounds

\* get_all_shows runs in a calendar year of FirstYear .. FirstYear + YearSpan - 1
YearSpan == 2
\* the all_shows argument of get_all_setlists has at most MaxShows rows
MaxShows == 2

\* ------------------------------------------------- program constants

\* range(1983, ...) in get_all_shows
FirstYear == 1983
\* requests.codes.ok
codes_ok == 200
\* the count from which get_shows_by_year warns
CountLimit == 300

\* ------------------------------------------------------------ strings

_base_url == <<"h", "t", "t", "p", "s", ":", "/", "/", "a", "p", "i", ".", "p", "h", "i", "s", "h", ".", "n", "e", "t", "/", "v", "3">>
venues_endpoint == <<"/", "v", "e", "n", "u", "e", "s", "/", "a", "l", "l">>
shows_endpoint == <<"/", "s", "h", "o", "w", "s", "/", "q", "u", "e", "r", "y", "/">>
setlists_endpoint == <<"/", "s", "e", "t", "l", "i", "s", "t", "s", "/", "g", "e", "t">>
Mask == <<"<", "<", "a", "p", "i", "k", "e", "y", ">", ">">>
s_apikey == <<"a", "p", "i", "k", "e", "y">>
s_year == <<"y", "e", "a", "r">>
s_order == <<"o", "r", "d", "e", "r">>
s_ASC == <<"A", "S", "C">>
s_showid == <<"s", "h", "o", "w", "i", "d">>

\* The values PHISH_API_KEY is given here: a key of the service's shape, a
\* placeholder that is part of the mask's own text, and a key with a
\* character the HTTP client percent-encodes.
Keys ==
    { <<"9", "F", "2", "B">>, <<"k", "e", "y">>, <<"k", "+">> }

Digit(d) == <<"0", "1", "2", "3", "4", "5", "6", "7", "8", "9">>[d + 1]

\* str(n) of a non-negative int
RECURSIVE IntToStr(_)
IntToStr(n) == IF n < 10 THEN <<Digit(n)>> ELSE IntToStr(n \div 10) \o <<Digit(n % 10)>>

\* sub occurs in s
Contains(s, sub) ==
    \E i \in 1..(Len(s) - Len(sub) + 1) : SubSeq(s, i, i + Len(sub) - 1) = sub

\* the positions of s at which old occurs
Matches(s, old) ==
    { i \in 1..(Len(s) - Len(old) + 1) : SubSeq(s, i, i + Len(old) - 1) = old }

Min(S) == CHOOSE m \in S : \A n \in S : m <= n

\* s from position i on, with the occurrences of a non-empty old replaced,
\* leftmost first and not overlapping
RECURSIVE replace_from(_, _, _, _)
replace_from(s, old, new, i) ==
    LET later == { j \in Matches(s, old) : j >= i }
    IN  IF later = {} THEN SubSeq(s, i, Len(s))
        ELSE SubSeq(s, i, Min(later) - 1) \o new
             \o replace_from(s, old, new, Min(later) + Len(old))

\* str.replace(old, new); an empty old matches before every character and
\* at the end
str_replace(s, old, new) ==
    IF old = <<>>
    THEN [j \in 1..((Len(s) + 1) * Len(new) + Len(s)) |->
            IF (j - 1) % (Len(new) + 1) < Len(new)
            THEN new[((j - 1) % (Len(new) + 1)) + 1]
            ELSE s[((j - 1) \div (Len(new) + 1)) + 1]]
    ELSE replace_from(s, old, new, 1)

\* The HTTP client's encoding of one character of a query value: letters,
\* digits and _ . - ~ are kept, a space becomes +, anything else %XX.
Unreserved ==
    { "a", "b", "c", "d", "e", "f", "g", "h", "i", "j", "k", "l", "m",
      "n", "o", "p", "q", "r", "s", "t", "u", "v", "w", "x", "y", "z",
      "A", "B", "C", "D", "E", "F", "G", "H", "I", "J", "K", "L", "M",
      "N", "O", "P", "Q", "R", "S", "T", "U", "V", "W", "X", "Y", "Z",
      "0", "1", "2", "3", "4", "5", "6", "7", "8", "9", "_", ".", "-", "~" }

PercentCode ==
    [c \in {"+", "/", "<", ">", "=", "&", "?", ":"} |->
        CASE c = "+" -> <<"%", "2", "B">>
          [] c = "/" -> <<"%", "2", "F">>
          [] c = "<" -> <<"%", "3", "C">>
          [] c = ">" -> <<"%", "3", "E">>
          [] c = "=" -> <<"%", "3", "D">>
          [] c = "&" -> <<"%", "2", "6">>
          [] c = "?" -> <<"%", "3", "F">>
          [] c = ":" -> <<"%", "3", "A">>]

quote_char(c) ==
    IF c \in Unreserved THEN <<c>>
    ELSE IF c = " " THEN <<"+">>
    ELSE PercentCode[c]

RECURSIVE quote_plus(_)
quote_plus(s) == IF s = <<>> THEN <<>> ELSE quote_char(Head(s)) \o quote_plus(Tail(s))

\* name=value&name=value of a payload, a sequence of <<name, value>> pairs in
\* the order the keys were added
RECURSIVE urlencode(_)
urlencode(payload) ==
    IF payload = <<>> THEN <<>>
    ELSE quote_plus(payload[1][1]) \o <<"=">> \o quote_plus(payload[1][2])
         \o (IF Len(payload) > 1 THEN <<"&">> \o urlencode(Tail(payload)) ELSE <<>>)

\* response.url of requests.request("GET", endpoint, params=payload)
response_url(endpoint, payload) == endpoint \o <<"?">> \o urlencode(payload)

\* ---------------------------------------------------- helper methods

_append_endpoint(url, endpoint) == url \o endpoint

_add_api_key_to_query_params(key) == << <<s_apikey, key>> >>

\* payload['apikey']
payload_apikey(payload) == payload[1][2]

_mask_api_key_from_url(url, payload) == str_replace(url, payload_apikey(payload), Mask)

_mask_api_key_from_query_string(url, payload, endpoint) ==
    str_replace(str_replace(url, payload_apikey(payload), Mask), endpoint, <<>>)


\* ------------------------------------------------------- the service

ShowIds == {1, 2}
Statuses == {codes_ok, 304, 404}
\* error_code and error_message of a response body
ErrorReports == { <<0, "">>, <<2, "invalid key">>, <<3, "no data">> }
\* response.count of /shows/query/
Counts == {CountLimit - 1, CountLimit, CountLimit + 1}
\* the statuses and error reports met inside the two loops
LoopStatuses == {codes_ok, 404}
LoopErrorReports == { <<0, "">>, <<2, "invalid key">> }
LoopCounts == {CountLimit - 1, CountLimit}

ShowRow(s) == [showid |-> s]
SetlistRow(s) == [showid |-> s, setlistdata |-> "Set 1: ..."]
VenueRow(v) == [venueid |-> v, name |-> "venue"]

\* response.data of /venues/all: a dict of dicts keyed by venue id
VenueData == { [v \in S |-> VenueRow(v)] : S \in SUBSET {1, 2} }
\* response.data of /shows/query/: a list of show records
ShowData == { <<>> } \cup { <<ShowRow(s)>> : s \in ShowIds }
\* response.data of /setlists/get for a show: empty, or the show's record
SetlistData(showid) == { <<>>, <<SetlistRow(showid)>> }

\* the count of a response that is not asked for the shows of a year
CountOf(d) == IF DOMAIN d = {} THEN 0 ELSE Cardinality(DOMAIN d)

Responses(statuses, reports, data, counts) ==
    { [status_code |-> st, error_code |-> e[1], error_message |-> e[2],
       data |-> d, count |-> c] :
        st \in statuses, e \in reports, d \in data, c \in counts }

VenueResponses ==
    { [r EXCEPT !.count = CountOf(r.data)] :
        r \in Responses(Statuses, ErrorReports, VenueData, {0}) }
ShowResponses == Responses(Statuses, ErrorReports, ShowData, Counts)
SetlistResponses(showid) ==
    { [r EXCEPT !.count = CountOf(r.data)] :
        r \in Responses(Statuses, ErrorReports, SetlistData(showid), {0}) }
LoopShowResponses == Responses(LoopStatuses, LoopErrorReports, ShowData, LoopCounts)
LoopSetlistResponses(showid) ==
    { [r EXCEPT !.count = CountOf(r.data)] :
        r \in Responses(LoopStatuses, LoopErrorReports, SetlistData(showid), {0}) }

\* -------------------------------------------------------- data frames

\* pd.DataFrame(dict of dicts): one column per outer key, one index label
\* per inner key
DataFrame_of_dict(d) ==
    LET columns == DOMAIN d
        index == UNION { DOMAIN d[c] : c \in columns }
    IN  [index |-> index, columns |-> columns,
         cell |-> [i \in index |-> [c \in columns |-> d[c][i]]]]

transpose(df) ==
    [index |-> df.columns, columns |-> df.index,
     cell |-> [i \in df.columns |-> [c \in df.index |-> df.cell[c][i]]]]

\* pd.DataFrame(list of dicts): one row per element, in order
DataFrame_of_list(l) == l

\* the text clean-up of the setlistdata field (pyphishnet/util.py)
parse_setlist_field(x) == <<"clean", x>>

\* ------------------------------------------------- response checking

NoError == [status_code |-> 0, error_code |-> 0, error_message |-> ""]

\* response.raise_for_status() raises HTTPError for a 4xx or 5xx status
raise_for_status(response) ==
    400 <= response.status_code /\ response.status_code < 600

\* TRUE when _is_ok_response returns, FALSE when it raises
_is_ok_response(response) ==
    IF response.status_code = codes_ok THEN TRUE ELSE ~raise_for_status(response)

\* an error check that reads the error code and raises nothing
_response_has_error_never(response) == FALSE

\* TRUE when _response_has_error raises ResponseError
_response_has_error(response) == response.error_code # 0

\* A reply is <<response>>, or <<>> when requests.request raises before any
\* response arrives (a connection error).
Replies(responses) == { <<>> } \cup { <<r>> : r \in responses }

\* the two checks in the other order
check_response_swapped(response) ==
    IF _response_has_error(response)
    THEN [exc |-> "ResponseError", json_read |-> TRUE,
          error |-> [NoError EXCEPT !.error_code = response.error_code,
                                    !.error_message = response.error_message]]
    ELSE IF ~_is_ok_response(response)
    THEN [exc |-> "HTTPError", json_read |-> TRUE,
          error |-> [NoError EXCEPT !.status_code = response.status_code]]
    ELSE [exc |-> "none", json_read |-> TRUE, error |-> NoError]

\* self._is_ok_response(response); self._response_has_error(response):
\* the exception the two checks end in, and whether response.json() was read
check_response(response) ==
    IF ~_is_ok_response(response)
    THEN [exc |-> "HTTPError", json_read |-> FALSE,
          error |-> [NoError EXCEPT !.status_code = response.status_code]]
    ELSE IF _response_has_error(response)
    THEN [exc |-> "ResponseError", json_read |-> TRUE,
          error |-> [NoError EXCEPT !.error_code = response.error_code,
                                    !.error_message = response.error_message]]
    ELSE [exc |-> "none", json_read |-> TRUE, error |-> NoError]

\* ---------------------------------------------------- endpoint methods

\* The request an endpoint method sends and what it stores of it: the
\* endpoint, the payload, and response.url masked twice (the lines between
\* "endpoint = ..." and the two checks).
prepare(key, endpoint, params) ==
    LET ep == _append_endpoint(_base_url, endpoint)
        payload == _add_api_key_to_query_params(key) \o params
        url == response_url(ep, payload)
    IN  [endpoint_ |-> ep, payload |-> payload, url |-> url,
         url_ |-> _mask_api_key_from_url(url, payload),
         query_string_ |-> _mask_api_key_from_query_string(url, payload, ep)]

Years == FirstYear .. (FirstYear + YearSpan - 1)

\* prepare, tabulated once over the keys and arguments of the model
venues_table == { <<k, prepare(k, venues_endpoint, <<>>)>> : k \in Keys }
shows_table ==
    { <<k, y, prepare(k, shows_endpoint,
                      << <<s_year, IntToStr(y)>>, <<s_order, s_ASC>> >>)>> :
        k \in Keys, y \in Years }
setlist_table ==
    { <<k, s, prepare(k, setlists_endpoint, << <<s_showid, IntToStr(s)>> >>)>> :
        k \in Keys, s \in ShowIds }

venues_request(k) == (CHOOSE p \in venues_table : p[1] = k)[2]
shows_request(k, y) == (CHOOSE p \in shows_table : p[1] = k /\ p[2] = y)[3]
setlist_request(k, s) == (CHOOSE p \in setlist_table : p[1] = k /\ p[2] = s)[3]

\* a warning only above the cut-off
count_warning_above(response) == response.count > CountLimit

\* the year's count reaches the API's cut-off
count_warning(response) == response.count >= CountLimit

\* What one endpoint method does with the reply to its request: the fields it
\* sets (url_ and query_string_ only once a response is there), the request
\* it sent, the exception it ends in, the value it returns.
get_all_venues(key, reply) ==
    LET q == venues_request(key)
    IN  IF reply = <<>>
        THEN [endpoint_ |-> q.endpoint_, payload |-> q.payload, url_ |-> <<>>,
              query_string_ |-> <<>>, exc |-> "ConnectionError", error |-> NoError,
              json_read |-> FALSE, warned |-> FALSE, value |-> <<>>]
        ELSE
        LET response == reply[1]
            chk == check_response(response)
        IN  [endpoint_ |-> q.endpoint_, payload |-> q.payload,
             url_ |-> <<q.url_>>, query_string_ |-> <<q.query_string_>>,
             exc |-> chk.exc, error |-> chk.error, json_read |-> chk.json_read,
             warned |-> FALSE,
             value |-> IF chk.exc = "none" THEN <<transpose(DataFrame_of_dict(response.data))>> ELSE <<>>]

get_shows_by_year(key, year, reply) ==
    LET q == shows_request(key, year)
    IN  IF reply = <<>>
        THEN [endpoint_ |-> q.endpoint_, payload |-> q.payload, url_ |-> <<>>,
              query_string_ |-> <<>>, exc |-> "ConnectionError", error |-> NoError,
              json_read |-> FALSE, warned |-> FALSE, value |-> <<>>]
        ELSE
        LET response == reply[1]
            chk == check_response(response)
        IN  [endpoint_ |-> q.endpoint_, payload |-> q.payload,
             url_ |-> <<q.url_>>, query_string_ |-> <<q.query_string_>>,
             exc |-> chk.exc, error |-> chk.error, json_read |-> chk.json_read,
             warned |-> chk.exc = "none" /\ count_warning(response),
             value |-> IF chk.exc = "none" THEN <<DataFrame_of_list(response.data)>> ELSE <<>>]

get_setlist(key, showid, reply) ==
    LET q == setlist_request(key, showid)
    IN  IF reply = <<>>
        THEN [endpoint_ |-> q.endpoint_, payload |-> q.payload, url_ |-> <<>>,
              query_string_ |-> <<>>, exc |-> "ConnectionError", error |-> NoError,
              json_read |-> FALSE, warned |-> FALSE, value |-> <<>>]
        ELSE
        LET response == reply[1]
            chk == check_response(response)
        IN  [endpoint_ |-> q.endpoint_, payload |-> q.payload,
             url_ |-> <<q.url_>>, query_string_ |-> <<q.query_string_>>,
             exc |-> chk.exc, error |-> chk.error, json_read |-> chk.json_read,
             warned |-> FALSE,
             value |-> IF chk.exc = "none" THEN <<DataFrame_of_list(response.data)>> ELSE <<>>]

\* -------------------------------------------------------------- state

VARIABLES
    env_key,          \* os.environ.get('PHISH_API_KEY'): <<>> is None, else <<key>>
    pc,               \* "new", "failed", "idle", the loop that is running, or
                      \*   "done" when a call has just ended
    _api_key,         \* self._api_key, as env_key
    has_api_key,      \* the instance fields: <<>> while the attribute is absent,
    endpoint_,        \*   <<value>> once it is set
    url_,
    query_string_,
    null_setlists,
    arg,              \* the argument of the most recent call
    years,            \* get_all_shows: the years the for loop has yet to visit
    all_shows,        \* get_all_shows: the rows gathered so far
    rows,             \* get_all_setlists: the rows iterrows() has yet to yield
    all_setlists,     \* get_all_setlists: the records gathered so far
    skipped,          \* get_all_setlists: its local list null_setlists
    trace,            \* the requests of the most recent call and their replies
    warnings,         \* the years the most recent call warned about
    outcome           \* how the most recent call ended

fields == <<has_api_key, endpoint_, url_, query_string_, null_setlists>>
locals == <<years, all_shows, rows, all_setlists, skipped>>
vars == <<env_key, pc, _api_key, fields, arg, locals, trace, warnings, outcome>>

\* range(start, stop)
range(start, stop) == [i \in 1..(stop - start) |-> start + i - 1]

\* the frames get_all_setlists is given: rows with a showid column
RECURSIVE SeqsUpTo(_, _)
SeqsUpTo(S, n) ==
    IF n = 0 THEN { <<>> }
    ELSE SeqsUpTo(S, n - 1)
         \cup { Append(q, x) : q \in { t \in SeqsUpTo(S, n - 1) : Len(t) = n - 1 }, x \in S }

ShowFrames == SeqsUpTo({ ShowRow(s) : s \in ShowIds }, MaxShows)

Outcome(op, kind, value, error) ==
    [op |-> op, kind |-> kind, value |-> value, error |-> error]

\* how a call that made the request r ends
Ended(op, r) ==
    Outcome(op, IF r.exc = "none" THEN "return" ELSE r.exc, r.value, r.error)

Entry(r, reply) ==
    [endpoint |-> r.endpoint_, payload |-> r.payload, reply |-> reply,
     exc |-> r.exc, json_read |-> r.json_read]

\* the assignments to self.endpoint_, self.url_ and self.query_string_
SetFields(r) ==
    /\ endpoint_' = <<r.endpoint_>>
    /\ url_' = IF r.url_ = <<>> THEN url_ ELSE r.url_
    /\ query_string_' = IF r.query_string_ = <<>> THEN query_string_ ELSE r.query_string_

NoOutcome == Outcome("none", "none", <<>>, NoError)

Init ==
    /\ env_key \in { <<>> } \cup { <<k>> : k \in Keys }
    /\ pc = "new"
    /\ _api_key = <<>>
    /\ has_api_key = <<>> /\ endpoint_ = <<>> /\ url_ = <<>>
    /\ query_string_ = <<>> /\ null_setlists = <<>>
    /\ arg = <<>>
    /\ years = <<>> /\ all_shows = <<>> /\ rows = <<>>
    /\ all_setlists = <<>> /\ skipped = <<>>
    /\ trace = <<>>
    /\ warnings = <<>>
    /\ outcome = NoOutcome

\* a constructor that never misses the key
api_key_missing_never(k) == FALSE

\* self._api_key is None
api_key_missing(k) == k = <<>>

\* PhishNetAPI()
Construct ==
    /\ pc = "new"
    /\ _api_key' = env_key
    /\ IF api_key_missing(env_key)
       THEN /\ pc' = "failed"
            /\ has_api_key' = has_api_key
            /\ outcome' = Outcome("__init__", "ApiKeyError", <<>>, NoError)
       ELSE /\ pc' = "idle"
            /\ has_api_key' = <<TRUE>>
            /\ outcome' = Outcome("__init__", "return", <<>>, NoError)
    /\ UNCHANGED <<env_key, endpoint_, url_, query_string_, null_setlists,
                   arg, locals, trace, warnings>>

GetAllVenues(reply) ==
    /\ pc = "idle"
    /\ LET r == get_all_venues(_api_key[1], reply)
       IN  /\ SetFields(r)
           /\ trace' = <<Entry(r, reply)>>
           /\ outcome' = Ended("get_all_venues", r)
    /\ arg' = <<>>
    /\ warnings' = <<>>
    /\ pc' = "done"
    /\ UNCHANGED <<env_key, _api_key, has_api_key, null_setlists, locals>>

GetShowsByYear(year, reply) ==
    /\ pc = "idle"
    /\ LET r == get_shows_by_year(_api_key[1], year, reply)
       IN  /\ SetFields(r)
           /\ trace' = <<Entry(r, reply)>>
           /\ warnings' = IF r.warned THEN <<year>> ELSE <<>>
           /\ outcome' = Ended("get_shows_by_year", r)
    /\ arg' = <<year>>
    /\ pc' = "done"
    /\ UNCHANGED <<env_key, _api_key, has_api_key, null_setlists, locals>>

GetSetlist(showid, reply) ==
    /\ pc = "idle"
    /\ LET r == get_setlist(_api_key[1], showid, reply)
       IN  /\ SetFields(r)
           /\ trace' = <<Entry(r, reply)>>
           /\ outcome' = Ended("get_setlist", r)
    /\ arg' = <<showid>>
    /\ warnings' = <<>>
    /\ pc' = "done"
    /\ UNCHANGED <<env_key, _api_key, has_api_key, null_setlists, locals>>

\* a loop that stops before the current year
all_years_short(now) == range(FirstYear, now)

\* the years get_all_shows visits when the clock says the year is now
all_years(now) == range(FirstYear, now + 1)

\* pd.concat([all_shows, year_shows], ignore_index=True)
concat(frame, other) == frame \o other

\* get_all_shows(), up to its for loop
GetAllShowsBegin(now) ==
    /\ pc = "idle"
    /\ pc' = "get_all_shows"
    /\ all_shows' = <<>>
    /\ years' = all_years(now)
    /\ arg' = <<now>>
    /\ trace' = <<>>
    /\ warnings' = <<>>
    /\ outcome' = Outcome("get_all_shows", "running", <<>>, NoError)
    /\ UNCHANGED <<env_key, _api_key, fields, rows, all_setlists, skipped>>

\* one pass of the for loop; an exception of get_shows_by_year leaves the
\* method
GetAllShowsIter(reply) ==
    /\ pc = "get_all_shows"
    /\ years # <<>>
    /\ LET this_year == Head(years)
           r == get_shows_by_year(_api_key[1], this_year, reply)
       IN  /\ SetFields(r)
           /\ trace' = Append(trace, Entry(r, reply))
           /\ warnings' = IF r.warned THEN Append(warnings, this_year) ELSE warnings
           /\ IF r.exc # "none"
              THEN /\ pc' = "done"
                   /\ outcome' = Outcome("get_all_shows", r.exc, <<>>, r.error)
                   /\ years' = <<>>
                   /\ all_shows' = <<>>
              ELSE /\ all_shows' = concat(all_shows, r.value[1])
                   /\ years' = Tail(years)
                   /\ UNCHANGED <<pc, outcome>>
    /\ UNCHANGED <<env_key, _api_key, has_api_key, null_setlists, arg,
                   rows, all_setlists, skipped>>

\* return all_shows
GetAllShowsReturn ==
    /\ pc = "get_all_shows"
    /\ years = <<>>
    /\ pc' = "done"
    /\ outcome' = Outcome("get_all_shows", "return", <<all_shows>>, NoError)
    /\ all_shows' = <<>>
    /\ UNCHANGED <<env_key, _api_key, fields, arg, years, rows, all_setlists,
                   skipped, trace, warnings>>

\* setlist.empty
empty(frame) == Len(frame) = 0

\* setlist['setlistdata_clean'] = setlist['setlistdata'].apply(...)
with_setlistdata_clean(frame) ==
    [i \in 1..Len(frame) |->
        [showid |-> frame[i].showid, setlistdata |-> frame[i].setlistdata,
         setlistdata_clean |-> parse_setlist_field(frame[i].setlistdata)]]

\* all_setlists.append(setlist)
append(frame, other) == frame \o other

\* a save without the test of the length
save_null_setlists_always(field, local) == <<local>>

\* the value of self.null_setlists after "if len(null_setlists) > 0: ..."
save_null_setlists(field, local) ==
    IF Len(local) > 0 THEN <<local>> ELSE field

\* get_all_setlists(all_shows), up to its for loop
GetAllSetlistsBegin(frame) ==
    /\ pc = "idle"
    /\ pc' = "get_all_setlists"
    /\ all_setlists' = <<>>
    /\ skipped' = <<>>
    /\ rows' = frame
    /\ arg' = frame
    /\ trace' = <<>>
    /\ warnings' = <<>>
    /\ outcome' = Outcome("get_all_setlists", "running", <<>>, NoError)
    /\ UNCHANGED <<env_key, _api_key, fields, years, all_shows>>

\* a loop that catches the exception of get_setlist, counts the show as
\* skipped and goes on
GetAllSetlistsIter_recovering(reply) ==
    /\ pc = "get_all_setlists"
    /\ rows # <<>>
    /\ reply \in Replies(LoopSetlistResponses(Head(rows).showid))
    /\ LET row_showid == Head(rows).showid
           r == get_setlist(_api_key[1], row_showid, reply)
       IN  /\ SetFields(r)
           /\ trace' = Append(trace, Entry(r, reply))
           /\ rows' = Tail(rows)
           /\ IF r.exc # "none" \/ empty(r.value[1])
              THEN /\ skipped' = Append(skipped, row_showid)
                   /\ UNCHANGED all_setlists
              ELSE /\ all_setlists' =
                        append(all_setlists, with_setlistdata_clean(r.value[1]))
                   /\ UNCHANGED skipped
    /\ UNCHANGED <<env_key, pc, outcome, _api_key, has_api_key, null_setlists, arg,
                   years, all_shows, warnings>>

\* one pass of the for loop; an exception of get_setlist leaves the method
GetAllSetlistsIter(reply) ==
    /\ pc = "get_all_setlists"
    /\ rows # <<>>
    /\ reply \in Replies(LoopSetlistResponses(Head(rows).showid))
    /\ LET row_showid == Head(rows).showid
           r == get_setlist(_api_key[1], row_showid, reply)
       IN  /\ SetFields(r)
           /\ trace' = Append(trace, Entry(r, reply))
           /\ IF r.exc # "none"
              THEN /\ pc' = "done"
                   /\ outcome' = Outcome("get_all_setlists", r.exc, <<>>, r.error)
                   /\ rows' = <<>>
                   /\ all_setlists' = <<>>
                   /\ skipped' = <<>>
              ELSE /\ rows' = Tail(rows)
                   /\ IF empty(r.value[1])
                      THEN /\ skipped' = Append(skipped, row_showid)
                           /\ UNCHANGED all_setlists
                      ELSE /\ all_setlists' =
                                append(all_setlists, with_setlistdata_clean(r.value[1]))
                           /\ UNCHANGED skipped
                   /\ UNCHANGED <<pc, outcome>>
    /\ UNCHANGED <<env_key, _api_key, has_api_key, null_setlists, arg,
                   years, all_shows, warnings>>

\* the end of get_all_setlists: null_setlists is saved when it is not empty
GetAllSetlistsReturn ==
    /\ pc = "get_all_setlists"
    /\ rows = <<>>
    /\ pc' = "done"
    /\ null_setlists' = save_null_setlists(null_setlists, skipped)
    /\ outcome' = Outcome("get_all_setlists", "return", <<all_setlists>>, NoError)
    /\ all_setlists' = <<>>
    /\ skipped' = <<>>
    /\ UNCHANGED <<env_key, _api_key, has_api_key, endpoint_, url_, query_string_,
                   arg, years, all_shows, rows, trace, warnings>>

\* The caller is done with the call that ended: its argument, its result and
\* the record of its requests are gone; the instance keeps its fields.
Discard ==
    /\ pc = "done"
    /\ pc' = "idle"
    /\ arg' = <<>>
    /\ trace' = <<>>
    /\ warnings' = <<>>
    /\ outcome' = NoOutcome
    /\ UNCHANGED <<env_key, _api_key, fields, locals>>

LoopSetlistReplies == UNION { Replies(LoopSetlistResponses(s)) : s \in ShowIds }

Next ==
    \/ Construct
    \/ \E reply \in Replies(VenueResponses) : GetAllVenues(reply)
    \/ \E year \in Years, reply \in Replies(ShowResponses) : GetShowsByYear(year, reply)
    \/ \E showid \in ShowIds :
          \E reply \in Replies(SetlistResponses(showid)) : GetSetlist(showid, reply)
    \/ \E now \in Years : GetAllShowsBegin(now)
    \/ \E reply \in Replies(LoopShowResponses) : GetAllShowsIter(reply)
    \/ GetAllShowsReturn
    \/ \E frame \in ShowFrames : GetAllSetlistsBegin(frame)
    \/ \E reply \in LoopSetlistReplies : GetAllSetlistsIter(reply)
    \/ GetAllSetlistsReturn
    \/ Discard

Spec == Init /\ [][Next]_vars

\* ---------------------------------------------------------- properties

Key == env_key[1]
EndpointOps == {"get_all_venues", "get_shows_by_year", "get_setlist"}
Last(q) == q[Len(q)]

\* a status for which the HTTP client has an exception to raise
FailingStatus(st) == st >= 400 /\ st <= 599

\* the response of the single request of an endpoint call that got one
Answered == pc = "done" /\ outcome.op \in EndpointOps /\ trace[1].reply # <<>>
Response1 == trace[1].reply[1]

\* the rows of a frame of venues are the records of data, by venue id
VenueRows(frame, data) ==
    /\ frame.index = DOMAIN data
    /\ \A v \in DOMAIN data : \A f \in DOMAIN data[v] : frame.cell[v][f] = data[v][f]

\* the returned frame holds the rows of response.data
ReturnsRows ==
    /\ outcome.kind = "return"
    /\ IF outcome.op = "get_all_venues"
       THEN VenueRows(outcome.value[1], Response1.data)
       ELSE outcome.value[1] = Response1.data

\* C1: with PHISH_API_KEY unset the constructor ends in ApiKeyError, has_api_key
\* is never set, no method runs and no request is sent; with the variable set
\* the constructor returns and has_api_key is True.
C1_FailFast ==
    /\ (env_key = <<>> /\ pc # "new") =>
          /\ pc = "failed"
          /\ outcome = Outcome("__init__", "ApiKeyError", <<>>, NoError)
          /\ has_api_key = <<>>
          /\ trace = <<>> /\ endpoint_ = <<>> /\ url_ = <<>>
    /\ (env_key # <<>> /\ pc # "new") =>
          /\ pc # "failed"
          /\ has_api_key = <<TRUE>>
          /\ outcome # Outcome("__init__", "ApiKeyError", <<>>, NoError)

C1_Witness == env_key = <<>> /\ pc = "failed"

\* C2: an endpoint call whose response has status 200 ends in ResponseError,
\* with the service's error_code and error_message, exactly when error_code is
\* not 0; with error_code 0 it returns the rows of response.data.
C2_ErrorCode ==
    (Answered /\ Response1.status_code = codes_ok) =>
        /\ (outcome.kind = "ResponseError") <=> (Response1.error_code # 0)
        /\ Response1.error_code # 0 =>
              /\ outcome.error.error_code = Response1.error_code
              /\ outcome.error.error_message = Response1.error_message
              /\ outcome.value = <<>>
        /\ Response1.error_code = 0 => ReturnsRows

C2_Witness ==
    /\ Answered /\ outcome.op = "get_setlist"
    /\ Response1.status_code = codes_ok /\ Response1.error_code = 3
    /\ outcome.kind = "ResponseError"

\* C3: an endpoint call whose response has any status other than 200 ends in
\* the HTTP client's exception and returns no data.
C3_NonOkRaises ==
    (Answered /\ Response1.status_code # codes_ok) =>
        outcome.kind = "HTTPError" /\ outcome.value = <<>>

\* the show ids of the first n rows of fr whose setlist came back empty, and
\* the records of the others, read off the replies in tr
RECURSIVE SkippedIn(_, _, _)
SkippedIn(fr, tr, n) ==
    IF n = 0 THEN <<>>
    ELSE SkippedIn(fr, tr, n - 1)
         \o (IF tr[n].reply[1].data = <<>> THEN <<fr[n].showid>> ELSE <<>>)

RECURSIVE RecordsIn(_, _)
RecordsIn(tr, n) ==
    IF n = 0 THEN <<>>
    ELSE RecordsIn(tr, n - 1)
         \o [i \in 1..Len(tr[n].reply[1].data) |->
                [showid |-> tr[n].reply[1].data[i].showid,
                 setlistdata |-> tr[n].reply[1].data[i].setlistdata,
                 setlistdata_clean |->
                     parse_setlist_field(tr[n].reply[1].data[i].setlistdata)]]

SetlistsReturned ==
    pc = "done" /\ outcome.op = "get_all_setlists" /\ outcome.kind = "return"

\* one get_setlist request per row of the argument, in order
OneRequestPerRow ==
    /\ Len(trace) <= Len(arg)
    /\ \A i \in 1..Len(trace) :
          /\ trace[i].endpoint = _base_url \o setlists_endpoint
          /\ trace[i].payload =
                << <<s_apikey, Key>>, <<s_showid, IntToStr(arg[i].showid)>> >>

\* C4: get_all_setlists sends one get_setlist request per input row in order;
\* on return null_setlists holds the show ids skipped in this call (none
\* skipped: empty or absent) and the table holds the records of the others.
C4_Partition ==
    SetlistsReturned =>
        /\ Len(trace) = Len(arg) /\ OneRequestPerRow
        /\ \/ null_setlists = <<SkippedIn(arg, trace, Len(trace))>>
           \/ SkippedIn(arg, trace, Len(trace)) = <<>> /\ null_setlists = <<>>
        /\ outcome.value = <<RecordsIn(trace, Len(trace))>>

RECURSIVE RowsIn(_, _)
RowsIn(tr, n) ==
    IF n = 0 THEN <<>> ELSE RowsIn(tr, n - 1) \o tr[n].reply[1].data

\* C5: get_all_shows asks for each year from 1983 to the current one, once and
\* in ascending order, with the key, the year and order = ASC; when all
\* requests succeed it returns the rows of the years, in that order.
C5_AllYears ==
    outcome.op = "get_all_shows" =>
        /\ Len(trace) <= arg[1] - FirstYear + 1
        /\ \A i \in 1..Len(trace) :
              /\ trace[i].endpoint = _base_url \o shows_endpoint
              /\ trace[i].payload =
                    << <<s_apikey, Key>>, <<s_year, IntToStr(FirstYear + i - 1)>>,
                       <<s_order, s_ASC>> >>
        /\ (pc = "done" /\ outcome.kind = "return") =>
              /\ Len(trace) = arg[1] - FirstYear + 1
              /\ outcome.value = <<RowsIn(trace, Len(trace))>>

C5_Witness ==
    /\ pc = "done" /\ outcome.op = "get_all_shows" /\ outcome.kind = "return"
    /\ arg[1] = FirstYear + 1 /\ Len(trace) = 2
    /\ outcome.value[1] = <<ShowRow(2), ShowRow(1)>>

\* in a loop, the requests so far answer to the first years or rows, one each
OneRequestEach ==
    /\ outcome.op = "get_all_shows" =>
          /\ Len(trace) <= arg[1] - FirstYear + 1
          /\ \A i \in 1..Len(trace) :
                trace[i].payload[2] = <<s_year, IntToStr(FirstYear + i - 1)>>
    /\ outcome.op = "get_all_setlists" => OneRequestPerRow

\* C6: requests go out one at a time and none is repeated; in get_all_shows
\* and get_all_setlists the first request that fails ends the call with its
\* exception: no request follows it, nothing is returned and null_setlists is
\* as it was.
C6_NoRetry ==
    [][/\ \/ trace' = trace
          \/ trace' = <<>>
          \/ Len(trace') = Len(trace) + 1 /\ SubSeq(trace', 1, Len(trace)) = trace
       /\ OneRequestEach'
       /\ (trace' # <<>> /\ trace' # trace /\ Last(trace').exc # "none") =>
             /\ pc' = "done"
             /\ outcome'.kind = Last(trace').exc
             /\ outcome'.value = <<>>
             /\ null_setlists' = null_setlists
       /\ (trace # <<>> /\ Last(trace).exc # "none") =>
             trace' = trace \/ (trace' = <<>> /\ pc' = "idle")
      ]_vars

C6_Witness ==
    /\ pc = "done" /\ outcome.op = "get_all_setlists"
    /\ outcome.kind = "ResponseError"
    /\ Len(arg) = 2 /\ Len(trace) = 1
    /\ null_setlists # <<>>

\* the URL of a request with <<apikey>> where the key was
MaskedQuery(e) ==
    <<"?">> \o s_apikey \o <<"=">> \o Mask
    \o (IF Len(e.payload) > 1 THEN <<"&">> \o urlencode(Tail(e.payload)) ELSE <<>>)

\* the requests of tr that got a response
RECURSIVE AnsweredIn(_)
AnsweredIn(tr) ==
    IF tr = <<>> THEN <<>>
    ELSE (IF Head(tr).reply = <<>> THEN <<>> ELSE <<Head(tr)>>) \o AnsweredIn(Tail(tr))

\* C7: url_ and query_string_, once set, do not contain the API key; they are
\* the URL, and the URL without the endpoint, of the latest request that got
\* a response, with <<apikey>> for the key, also when the call then raises.
C7_KeyMasked ==
    /\ url_ # <<>> => ~Contains(url_[1], Key)
    /\ query_string_ # <<>> => ~Contains(query_string_[1], Key)
    /\ AnsweredIn(trace) # <<>> =>
          /\ url_ = <<Last(AnsweredIn(trace)).endpoint
                      \o MaskedQuery(Last(AnsweredIn(trace)))>>
          /\ query_string_ = <<MaskedQuery(Last(AnsweredIn(trace)))>>

\* C8: get_shows_by_year warns exactly when the response passes both checks
\* and its count is 300 or more; it then still returns the rows of the data.
C8_Warning ==
    (pc = "done" /\ outcome.op = "get_shows_by_year") =>
        /\ (warnings = <<arg[1]>>) <=>
              /\ trace[1].reply # <<>>
              /\ outcome.kind = "return"
              /\ Response1.count >= CountLimit
        /\ warnings # <<>> =>
              /\ warnings = <<arg[1]>>
              /\ outcome.value = <<Response1.data>>

C8_Witness ==
    /\ pc = "done" /\ outcome.op = "get_shows_by_year"
    /\ trace[1].reply # <<>> /\ Response1.count = CountLimit
    /\ warnings = <<arg[1]>> /\ outcome.value = <<<<ShowRow(1)>>>>

\* C9: the status check runs before the error-code check and both before the
\* data is shaped: a response with a failing status ends the call in the HTTP
\* client's exception, whatever its error_code, and its body is not read.
C9_CheckOrder ==
    /\ \A i \in 1..Len(trace) :
          trace[i].reply # <<>> =>
              /\ FailingStatus(trace[i].reply[1].status_code) =>
                    trace[i].exc = "HTTPError" /\ ~trace[i].json_read
              /\ trace[i].exc = "ResponseError" =>
                    /\ ~FailingStatus(trace[i].reply[1].status_code)
                    /\ trace[i].reply[1].error_code # 0
              /\ trace[i].exc = "none" => trace[i].reply[1].error_code = 0
    /\ (pc = "done" /\ trace # <<>> /\ Last(trace).exc # "none") =>
          outcome.kind = Last(trace).exc /\ outcome.value = <<>>

C9_Witness ==
    /\ Answered
    /\ FailingStatus(Response1.status_code) /\ Response1.error_code # 0
    /\ outcome.kind = "HTTPError"

\* C10: null_setlists changes only when a get_all_setlists call returns having
\* skipped at least one show, and then becomes the list of the show ids it
\* skipped; every other step leaves it as it was.
C10_NullSetlistsFrame ==
    [][/\ null_setlists' # null_setlists =>
             /\ pc = "get_all_setlists" /\ pc' = "done" /\ outcome'.kind = "return"
             /\ SkippedIn(arg, trace, Len(trace)) # <<>>
             /\ null_setlists' = <<SkippedIn(arg, trace, Len(trace))>>
       /\ (/\ pc = "get_all_setlists" /\ pc' = "done" /\ outcome'.kind = "return"
           /\ SkippedIn(arg, trace, Len(trace)) # <<>>) =>
             null_setlists' = <<SkippedIn(arg, trace, Len(trace))>>
      ]_vars

C10_Witness ==
    /\ SetlistsReturned
    /\ Len(arg) = 2 /\ SkippedIn(arg, trace, Len(trace)) = <<>>
    /\ null_setlists = <<<<2, 1>>>>
====
